---- MODULE Spec2Model ----
(***************************************************************************)
(* Model of the Cluster managed-resource controller of                     *)
(* provider-cockroachdb: the external client's Observe / Create / Update / *)
(* Delete (internal/controller/cluster), the request builders of           *)
(* apis/database/v1alpha1 and the CockroachDB Cloud backend they talk to.  *)
(***************************************************************************)
EXTENDS Integers, Sequences, FiniteSets, TLC

\* ------------------------------------------------------------------ bounds
\* Number of clusters the backend hands out identifiers for.
MaxClusters == 2
\* Spend limits range over 0..MaxSpend.
MaxSpend == 1
MaxFetches == 2
MaxClients == 2

\* ------------------------------------------------------------- identifiers
\* The managed resources; only the resources of a specification's Next act.
Resources == {"r1", "r2"}

\* Values of the crossplane.io/external-name annotation and of Cluster.Id.
EmptyName == [kind |-> "empty", n |-> 0]
\* The annotation as the runtime initialises it from metadata.name.
MalformedName == [kind |-> "malformed", n |-> 0]
Uuid(k) == [kind |-> "uuid", n |-> k]

\* uuid.Parse(u) succeeds exactly on well-formed UUIDs.
isValidUUIDAcceptsMalformed(u) == u.kind # "empty"
isValidUUID(u) == u.kind = "uuid"

\* cockroachdb.ClusterStateType
CLUSTERSTATETYPE_UNSPECIFIED == "CLUSTER_STATE_UNSPECIFIED"
CLUSTERSTATETYPE_CREATED == "CREATED"
CLUSTERSTATETYPE_CREATING == "CREATING"
CLUSTERSTATETYPE_CREATION_FAILED == "CREATION_FAILED"
CLUSTERSTATETYPE_DELETED == "DELETED"
CLUSTERSTATETYPE_LOCKED == "LOCKED"
ClusterStates ==
  { CLUSTERSTATETYPE_UNSPECIFIED, CLUSTERSTATETYPE_CREATED,
    CLUSTERSTATETYPE_CREATING, CLUSTERSTATETYPE_CREATION_FAILED,
    CLUSTERSTATETYPE_DELETED, CLUSTERSTATETYPE_LOCKED }

\* cockroachdb.ApiCloudProvider values a Cluster may declare.
Providers == {"GCP", "AWS"}

\* A slot of the backend that holds no cluster.
NoCluster ==
  [id |-> EmptyName, name |-> "", provider |-> "", state |-> "NONE",
   spendLimit |-> 0, regions |-> <<>>]

\* -------------------------------------------------------- schema defaulting
\* ServerlessCluster.SpendLimit is an optional *int32 with default 0: a
\* manifest gives it as <<>> (absent) or <<n>>; the stored object always
\* carries a value.
DefaultSpendLimit(given) == IF given = <<>> THEN <<0>> ELSE given

\* ------------------------------------------------------------------- state
VARIABLES
  externalName,  \* [Resources -> name]   the external-name annotation
  desired,       \* [Resources -> record] cr.Name and cr.Spec.ForProvider
  status,        \* [Resources -> record] cr.Status (AtProvider, condition)
  backend,       \* [1..MaxClusters -> cluster] the provisioning API's clusters
  nextId,        \* next identifier the backend hands out
  pc,            \* [Resources -> position inside Create]
  cur,           \* [Resources -> locals of the running Create]
  calls,         \* [Resources -> calls issued by the current/last operation]
  result,        \* [Resources -> what the last operation returned]
  cdCount        \* [Resources -> number of connection details produced]

\* State of the parts that are modelled on their own.
VARIABLES
  todo,          \* [Resources -> operation the reconciler calls next]
  conn,          \* the Connect call in progress or finished
  fetch,         \* a CAClient and its last ClusterCACert call
  http,          \* a Client's last request and what do returned for it
  process,       \* the http.Clients of the process and the Clients built
  inflight       \* an operation, its pending network call and its context

\* The variables of the external client and its backend.
core ==
  << externalName, desired, status, backend, nextId, pc, cur, calls, result,
     cdCount >>

vars ==
  << externalName, desired, status, backend, nextId, pc, cur, calls, result,
     cdCount, todo, conn, fetch, http, process, inflight >>


\* --------------------------------------------------------- request builders
\* Cluster.CreateClusterRequest
CreateClusterRequestFirstName(cr) ==
  [name |-> "r1", provider |-> cr.provider, regions |-> cr.regions,
   spendLimit |-> cr.spendLimit[1]]
CreateClusterRequest(cr) ==
  [name |-> cr.name, provider |-> cr.provider, regions |-> cr.regions,
   spendLimit |-> cr.spendLimit[1]]

\* Cluster.UpdateClusterSpec
UpdateClusterSpecWithRegions(cr) ==
  [spendLimit |-> cr.spendLimit[1], regions |-> cr.regions]
UpdateClusterSpec(cr) == [spendLimit |-> cr.spendLimit[1]]

\* Cluster.CreateSQLUserRequest
CreateSQLUserRequestEmptyPassword(cr, pwd) ==
  [name |-> cr.username, password |-> ""]
CreateSQLUserRequest(cr, pwd) == [name |-> cr.username, password |-> pwd]

\* A call without a request body.
NoBody == [none |-> TRUE]

\* One call to a collaborator: its name, the identifier it is keyed by and
\* its request body.
Call(name, key, body) == [call |-> name, key |-> key, body |-> body]

\* --------------------------------------------------------- controller helpers
\* fillAtProvider: the cluster's id and state go to Status.AtProvider.
fillAtProvider(st, cluster) ==
  [st EXCEPT !.id = cluster.id, !.state = cluster.state]

\* isUpToDate: only the spend limit is compared.
isUpToDateComparesProvider(cr, cluster) ==
  /\ cr.spendLimit[1] = cluster.spendLimit
  /\ cr.provider = cluster.provider
isUpToDateNever(cr, cluster) == FALSE
isUpToDate(cr, cluster) == cr.spendLimit[1] = cluster.spendLimit

\* The condition the switch on cluster.State in Observe sets; "keep" leaves
\* the conditions as they are (the DELETED branch returns before setting one).
ConditionForLockedAvailable(state) ==
  CASE state = CLUSTERSTATETYPE_CREATED -> "Available"
    [] state = CLUSTERSTATETYPE_LOCKED -> "Available"
    [] state = CLUSTERSTATETYPE_CREATING -> "Creating"
    [] state = CLUSTERSTATETYPE_DELETED -> "keep"
    [] OTHER -> "Unavailable"
ConditionForDeletedUnavailable(state) ==
  CASE state = CLUSTERSTATETYPE_CREATED -> "Available"
    [] state = CLUSTERSTATETYPE_CREATING -> "Creating"
    [] OTHER -> "Unavailable"
ConditionForFailedIsGone(state) ==
  CASE state = CLUSTERSTATETYPE_CREATED -> "Available"
    [] state = CLUSTERSTATETYPE_CREATING -> "Creating"
    [] state = CLUSTERSTATETYPE_DELETED -> "keep"
    [] state = CLUSTERSTATETYPE_CREATION_FAILED -> "keep"
    [] OTHER -> "Unavailable"
ConditionFor(state) ==
  CASE state = CLUSTERSTATETYPE_CREATED -> "Available"
    [] state = CLUSTERSTATETYPE_CREATING -> "Creating"
    [] state = CLUSTERSTATETYPE_DELETED -> "keep"
    [] OTHER -> "Unavailable"

\* managed.ConnectionDetails{} : the empty map.
NoConnectionDetails == [k \in {} |-> <<>>]

\* The DSN fmt.Sprintf assembles, as the sequence of its pieces.
DsnPlainEquals(user, password, host, name) ==
  << "postgresql://", user, ":", password, "@", host,
     ":26257/defaultdb?sslmode=verify-full&options=--cluster", "=", name >>
Dsn(user, password, host, name) ==
  << "postgresql://", user, ":", password, "@", host,
     ":26257/defaultdb?sslmode=verify-full&options=--cluster", "%3D", name >>

\* getConnectionDetails: the CA certificate and the DSN of the first region.
getConnectionDetailsCaOnly(cr, cluster, ca, password) ==
  [k \in {"ca.crt"} |-> ca]
getConnectionDetails(cr, cluster, ca, password) ==
  [k \in {"ca.crt", "dsn"} |->
     IF k = "ca.crt" THEN ca
     ELSE Dsn(cr.username, password, cluster.regions[1], cluster.name)]

\* meta.GetExternalName / meta.SetExternalName on the annotation.
GetExternalNameFromStatus(r) == status[r].id
GetExternalName(r) == externalName[r]

SetExternalNameKeepsOld(old, id) == old
SetExternalName(old, id) == id

\* ------------------------------------------------------------ return values
\* Errors: what failed and, where the failure carries one, an HTTP status.
Err(what, code) == [what |-> what, code |-> code]
NilErr == Err("nil", 0)

\* What a collaborator answered: res is <<>> for no HTTP response (the
\* transport failed) and <<status>> otherwise.
Answer(res, err) == [res |-> res, err |-> err]
NoAnswer == Answer(<<>>, NilErr)

\* The external-name annotation an operation was called with.
Args(r) == [name |-> externalName[r]]
NoArgs == [name |-> EmptyName]

\* managed.ExternalObservation / ExternalCreation / ExternalUpdate with the
\* error returned beside it, held until the reconciler takes it. outcome is
\* "returned", "panic" (the call did not return) or "running" (a Create
\* between two of its steps); seen is the cluster the backend answered with
\* and answer the last collaborator's answer.
NoResult ==
  [op |-> "none", args |-> NoArgs, outcome |-> "none", err |-> NilErr,
   exists |-> FALSE, upToDate |-> FALSE, cd |-> NoConnectionDetails,
   seen |-> NoCluster, answer |-> NoAnswer]

\* The zero value an operation returns, before its fields are set.
Returned(op, r, answer) ==
  [NoResult EXCEPT !.op = op, !.args = Args(r), !.outcome = "returned",
                   !.answer = answer]

\* The locals of Create: the created cluster and the resolved password.
NoLocals == [cluster |-> NoCluster, pwd |-> ""]

\* ------------------------------------------------------------------ backend
\* net/http status codes the code tests for.
StatusOK == 200
StatusNotFound == 404
StatusInternalServerError == 500

\* The cluster the backend holds under an identifier.
Lookup(id) ==
  IF id.kind = "uuid" /\ id.n \in 1..MaxClusters THEN backend[id.n]
  ELSE NoCluster

\* A reply of the SDK: (value, *http.Response, error).
Reply(cluster, res, err) == [cluster |-> cluster, res |-> res, err |-> err]

\* The failures any call may meet: an API error, or a transport failure
\* that carries no response.
Failures(what) ==
  { Reply(NoCluster, <<StatusInternalServerError>>,
          Err(what, StatusInternalServerError)),
    Reply(NoCluster, <<>>, Err(what, 0)) }

\* What GetCluster may answer for an identifier: the cluster when the backend
\* holds it, not-found when it holds none or has deleted it, or a failure.
GetClusterReplies(id) ==
  LET c == Lookup(id) IN
    { Reply(c, <<StatusOK>>, NilErr) : x \in IF c # NoCluster THEN {1} ELSE {} }
    \cup
    { Reply(NoCluster, <<StatusNotFound>>, Err("GetCluster", StatusNotFound)) :
        x \in IF c = NoCluster \/ c.state = CLUSTERSTATETYPE_DELETED
              THEN {1} ELSE {} }
    \cup Failures("GetCluster")

\* The SQL endpoints of a new cluster, one per requested region.
SqlDns(regions) == [i \in 1..Len(regions) |-> <<"sql", regions[i]>>]

\* The cluster the backend creates for a request.
NewCluster(req) ==
  [id |-> Uuid(nextId), name |-> req.name, provider |-> req.provider,
   state |-> CLUSTERSTATETYPE_CREATING, spendLimit |-> req.spendLimit,
   regions |-> SqlDns(req.regions)]

\* What CreateCluster may answer: a new cluster while the backend has
\* identifiers left, or a failure.
CreateClusterReplies(req) ==
  { Reply(NewCluster(req), <<StatusOK>>, NilErr) :
      x \in IF nextId <= MaxClusters THEN {1} ELSE {} }
  \cup Failures("CreateCluster")

\* The clusters the backend holds that are not deleted.
LiveClusters ==
  { i \in 1..MaxClusters :
      backend[i] # NoCluster /\ backend[i].state # CLUSTERSTATETYPE_DELETED }

\* What UpdateCluster and DeleteCluster may answer for an identifier: the
\* cluster when it is live, or a failure.
MutateReplies(what, id) ==
  { Reply(Lookup(id), <<StatusOK>>, NilErr) :
      x \in IF id.kind = "uuid" /\ id.n \in LiveClusters THEN {1} ELSE {} }
  \cup Failures(what)

\* --------------------------------------------------------------- scheduling
\* The reconciler runs one operation at a time on a resource and takes its
\* result before it starts the next.
Ready(r) == pc[r] = "idle" /\ result[r] = NoResult

\* No returned result is waiting to be taken.
Quiet == \A r \in Resources : result[r].outcome \in {"none", "running"}

\* ------------------------------------------------------------------ Observe
\* external.Observe, after the identifier passed validation and GetCluster
\* answered with reply.
ObserveReply(r, reply) ==
  LET ret == Returned("Observe", r, Answer(reply.res, reply.err)) IN
  IF reply.err # NilErr
  THEN /\ UNCHANGED status
       /\ result' = [result EXCEPT ![r] =
            IF reply.res = <<>>
            THEN \* res.StatusCode on a nil response
                 [ret EXCEPT !.outcome = "panic"]
            ELSE IF reply.res[1] = StatusNotFound THEN ret
            ELSE [ret EXCEPT !.err = reply.err]]
  ELSE LET cluster == reply.cluster
           cond == ConditionFor(cluster.state)
           filled == fillAtProvider(status[r], cluster)
       IN IF cond = "keep"
          THEN /\ status' = [status EXCEPT ![r] = filled]
               /\ result' = [result EXCEPT ![r] = [ret EXCEPT !.seen = cluster]]
          ELSE /\ status' = [status EXCEPT ![r] = [filled EXCEPT !.cond = cond]]
               /\ result' = [result EXCEPT ![r] =
                    [ret EXCEPT !.seen = cluster, !.exists = TRUE,
                                !.upToDate = isUpToDate(desired[r], cluster),
                                !.cd = NoConnectionDetails]]

\* external.Observe
Observe(r) ==
  /\ Ready(r)
  /\ IF ~isValidUUID(GetExternalName(r))
     THEN /\ calls' = [calls EXCEPT ![r] = <<>>]
          /\ result' = [result EXCEPT ![r] = Returned("Observe", r, NoAnswer)]
          /\ UNCHANGED status
     ELSE /\ calls' = [calls EXCEPT ![r] =
               << Call("GetCluster", GetExternalName(r), NoBody) >>]
          /\ \E reply \in GetClusterReplies(GetExternalName(r)) :
               ObserveReply(r, reply)
  /\ UNCHANGED << externalName, desired, backend, nextId, pc, cur, cdCount >>

\* ------------------------------------------------------------------- Create
\* A running Create returns err (and no connection details).
CreateFailsRetries(r, answer, err) == UNCHANGED << result, pc, cur >>
CreateFails(r, answer, err) ==
  /\ result' = [result EXCEPT ![r] =
       [@ EXCEPT !.outcome = "returned", !.err = err, !.answer = answer]]
  /\ pc' = [pc EXCEPT ![r] = "idle"]
  /\ cur' = [cur EXCEPT ![r] = NoLocals]

\* external.Create from the CreateCluster call to meta.SetExternalName,
\* CreateCluster having answered with reply.
CreateClusterReplyNamesFirst(r, reply) ==
  LET ret == Returned("Create", r, Answer(reply.res, reply.err)) IN
  IF reply.err # NilErr
  THEN /\ result' = [result EXCEPT ![r] = [ret EXCEPT !.err = reply.err]]
       /\ externalName' = [externalName EXCEPT ![r] =
            SetExternalName(@, reply.cluster.id)]
       /\ UNCHANGED << backend, nextId, pc, cur >>
  ELSE /\ backend' = [backend EXCEPT ![nextId] = reply.cluster]
       /\ nextId' = nextId + 1
       /\ externalName' = [externalName EXCEPT ![r] =
            SetExternalName(@, reply.cluster.id)]
       /\ cur' = [cur EXCEPT ![r] = [cluster |-> reply.cluster, pwd |-> ""]]
       /\ result' = [result EXCEPT ![r] =
            [ret EXCEPT !.outcome = "running", !.seen = reply.cluster]]
       /\ pc' = [pc EXCEPT ![r] = "getPassword"]
CreateClusterReply(r, reply) ==
  LET ret == Returned("Create", r, Answer(reply.res, reply.err)) IN
  IF reply.err # NilErr
  THEN /\ result' = [result EXCEPT ![r] = [ret EXCEPT !.err = reply.err]]
       /\ UNCHANGED << externalName, backend, nextId, pc, cur >>
  ELSE /\ backend' = [backend EXCEPT ![nextId] = reply.cluster]
       /\ nextId' = nextId + 1
       /\ externalName' = [externalName EXCEPT ![r] =
            SetExternalName(@, reply.cluster.id)]
       /\ cur' = [cur EXCEPT ![r] = [cluster |-> reply.cluster, pwd |-> ""]]
       /\ result' = [result EXCEPT ![r] =
            [ret EXCEPT !.outcome = "running", !.seen = reply.cluster]]
       /\ pc' = [pc EXCEPT ![r] = "getPassword"]

\* external.Create: the CreateCluster call.
CreateCluster(r) ==
  /\ Ready(r)
  /\ calls' = [calls EXCEPT ![r] =
       << Call("CreateCluster", EmptyName, CreateClusterRequest(desired[r])) >>]
  /\ \E reply \in CreateClusterReplies(CreateClusterRequest(desired[r])) :
       CreateClusterReply(r, reply)
  /\ UNCHANGED << desired, status, cdCount >>


\* The passwords password.Generate may draw.
GeneratedPasswords == {"gen-a", "gen-b"}

\* The key a password secret reference names.
PasswordKey == "password"

\* The password secret as kube.Get finds it: unreadable, readable without
\* the key, or holding a value under it.
NoSecret == [readable |-> FALSE, data |-> [k \in {} |-> ""]]
SecretStores ==
  { NoSecret, [readable |-> TRUE, data |-> [k \in {} |-> ""]] }
  \cup
  { [readable |-> TRUE, data |-> [k \in {PasswordKey} |-> v]] :
      v \in {"s3cret", "hunter2"} }

\* getPassword: the outcomes <<password, error>> for a secret key selector
\* (present or not) and the secret store.
getPasswordIgnoresMissingKey(hasRef, store) ==
  IF ~hasRef
  THEN { <<p, NilErr>> : p \in GeneratedPasswords }
       \cup { <<"", Err("getPassword: generate", 0)>> }
  ELSE IF ~store.readable
  THEN { <<"", Err("getPassword: kube.Get", 0)>> }
  ELSE IF PasswordKey \notin DOMAIN store.data
  THEN { <<"", NilErr>> }
  ELSE { <<store.data[PasswordKey], NilErr>> }
getPassword(hasRef, store) ==
  IF ~hasRef
  THEN { <<p, NilErr>> : p \in GeneratedPasswords }
       \cup { <<"", Err("getPassword: generate", 0)>> }
  ELSE IF ~store.readable
  THEN { <<"", Err("getPassword: kube.Get", 0)>> }
  ELSE IF PasswordKey \notin DOMAIN store.data
  THEN { <<"", Err("getPassword: secret key not found", 0)>> }
  ELSE { <<store.data[PasswordKey], NilErr>> }

\* external.Create: the getPassword step; with a secret reference it reads
\* the secret store, whose content the call records.
CreateGetPassword(r) ==
  /\ pc[r] = "getPassword"
  /\ \E store \in IF desired[r].passwordSecretRef THEN SecretStores
                   ELSE {NoSecret} :
       /\ calls' = [calls EXCEPT ![r] =
            IF desired[r].passwordSecretRef
            THEN Append(@, Call("GetSecret", EmptyName, store)) ELSE @]
       /\ \E out \in getPassword(desired[r].passwordSecretRef, store) :
            IF out[2] # NilErr
            THEN CreateFails(r, Answer(<<>>, out[2]), out[2])
            ELSE /\ cur' = [cur EXCEPT ![r].pwd = out[1]]
                 /\ pc' = [pc EXCEPT ![r] = "createSQLUser"]
                 /\ UNCHANGED result
  /\ UNCHANGED << externalName, desired, status, backend, nextId, cdCount >>

\* external.Create: the CreateSQLUser call.
CreateSQLUser(r) ==
  /\ pc[r] = "createSQLUser"
  /\ calls' = [calls EXCEPT ![r] =
       Append(@, Call("CreateSQLUser", cur[r].cluster.id,
                      CreateSQLUserRequest(desired[r], cur[r].pwd)))]
  /\ \/ \E reply \in Failures("CreateSQLUser") :
          CreateFails(r, Answer(reply.res, reply.err), reply.err)
     \/ /\ pc' = [pc EXCEPT ![r] = "caCert"]
        /\ UNCHANGED << result, cur >>
  /\ UNCHANGED << externalName, desired, status, backend, nextId, cdCount >>

\* The certificate endpoint's answers: <<>> when the transport fails,
\* <<status>> otherwise.
CaResponses ==
  { <<>>, <<StatusOK>>, <<StatusNotFound>>, <<StatusInternalServerError>> }

\* The bytes the certificate endpoint serves for a cluster.
CaBody(id) == <<"ca", id.n>>

\* CAClient.ClusterCACert: <<bytes, error>> for the endpoint's answer.
ClusterCACertDropsCode(id, res) ==
  IF res = <<>> THEN << <<>>, Err("error requesting CA cert", 0) >>
  ELSE IF res[1] # StatusOK
  THEN << <<>>, Err("error requesting CA cert: status code", 0) >>
  ELSE << CaBody(id), NilErr >>
ClusterCACertIgnoresStatus(id, res) ==
  IF res = <<>> THEN << <<>>, Err("error requesting CA cert", 0) >>
  ELSE << CaBody(id), NilErr >>
ClusterCACert(id, res) ==
  IF res = <<>> THEN << <<>>, Err("error requesting CA cert", 0) >>
  ELSE IF res[1] # StatusOK
  THEN << <<>>, Err("error requesting CA cert: status code", res[1]) >>
  ELSE << CaBody(id), NilErr >>

\* external.Create: the ClusterCACert call and the return.
CreateCACert(r) ==
  /\ pc[r] = "caCert"
  /\ calls' = [calls EXCEPT ![r] =
       Append(@, Call("ClusterCACert", cur[r].cluster.id, NoBody))]
  /\ \E res \in CaResponses :
       LET out == ClusterCACert(cur[r].cluster.id, res) IN
         IF out[2] # NilErr
         THEN /\ CreateFails(r, Answer(res, out[2]), out[2])
              /\ UNCHANGED cdCount
         ELSE /\ result' = [result EXCEPT ![r] =
                   [@ EXCEPT !.outcome = "returned",
                             !.answer = Answer(res, out[2]),
                             !.cd = getConnectionDetails(desired[r],
                                      cur[r].cluster, out[1], cur[r].pwd)]]
              /\ pc' = [pc EXCEPT ![r] = "idle"]
              /\ cur' = [cur EXCEPT ![r] = NoLocals]
              /\ cdCount' = [cdCount EXCEPT ![r] = @ + 1]
  /\ UNCHANGED << externalName, desired, status, backend, nextId >>

\* ------------------------------------------------------------------- Update
\* external.Update: one UpdateCluster call carrying UpdateClusterSpec.
\* What Update returns for UpdateCluster's reply.
UpdateReturnDropsError(r, reply) ==
  Returned("Update", r, Answer(reply.res, reply.err))
UpdateReturn(r, reply) ==
  LET ret == Returned("Update", r, Answer(reply.res, reply.err)) IN
  IF reply.err # NilErr THEN [ret EXCEPT !.err = reply.err]
  ELSE [ret EXCEPT !.cd = NoConnectionDetails]

Update(r) ==
  /\ Ready(r)
  /\ calls' = [calls EXCEPT ![r] =
       << Call("UpdateCluster", GetExternalName(r),
               UpdateClusterSpec(desired[r])) >>]
  /\ \E reply \in MutateReplies("UpdateCluster", GetExternalName(r)) :
       IF reply.err # NilErr
       THEN /\ result' = [result EXCEPT ![r] = UpdateReturn(r, reply)]
            /\ UNCHANGED backend
       ELSE /\ backend' = [backend EXCEPT ![reply.cluster.id.n] =
                            [@ EXCEPT !.spendLimit =
                               UpdateClusterSpec(desired[r]).spendLimit]]
            /\ result' = [result EXCEPT ![r] =
                 [UpdateReturn(r, reply) EXCEPT
                    !.seen = backend'[reply.cluster.id.n]]]
  /\ UNCHANGED << externalName, desired, status, nextId, pc, cur, cdCount >>

\* ------------------------------------------------------------------- Delete
\* external.Delete: one DeleteCluster call; its error is returned as it is.
\* What Delete returns for DeleteCluster's reply: its error, as it is.
DeleteReturnWrapsError(r, reply) ==
  LET ret == Returned("Delete", r, Answer(reply.res, reply.err)) IN
  IF reply.err # NilErr
  THEN [ret EXCEPT !.err = Err("cannot delete cluster", 0)]
  ELSE ret
DeleteReturn(r, reply) ==
  [Returned("Delete", r, Answer(reply.res, reply.err)) EXCEPT !.err = reply.err]

Delete(r) ==
  /\ Ready(r)
  /\ calls' = [calls EXCEPT ![r] =
       << Call("DeleteCluster", GetExternalName(r), NoBody) >>]
  /\ \E reply \in MutateReplies("DeleteCluster", GetExternalName(r)) :
       IF reply.err # NilErr
       THEN /\ result' = [result EXCEPT ![r] = DeleteReturn(r, reply)]
            /\ UNCHANGED backend
       ELSE /\ backend' = [backend EXCEPT ![reply.cluster.id.n].state =
                            CLUSTERSTATETYPE_DELETED]
            /\ result' = [result EXCEPT ![r] =
                 [DeleteReturn(r, reply) EXCEPT
                    !.seen = backend'[reply.cluster.id.n]]]
  /\ UNCHANGED << externalName, desired, status, nextId, pc, cur, cdCount >>

\* -------------------------------------------------------------- environment
\* The reconciler takes the result of the operation that returned.
Return(r) ==
  /\ pc[r] = "idle"
  /\ result[r] # NoResult
  /\ result' = [result EXCEPT ![r] = NoResult]
  /\ calls' = [calls EXCEPT ![r] = <<>>]
  /\ UNCHANGED << externalName, desired, status, backend, nextId, pc, cur,
                  cdCount >>

\* The provisioning system moves a cluster to another lifecycle state
\* (creation finishes or fails, the cluster is locked, unlocked or deleted
\* outside the controller). DELETED is final.
BackendChange(i, s) ==
  /\ Quiet
  /\ i \in LiveClusters
  /\ s # backend[i].state
  /\ backend' = [backend EXCEPT ![i].state = s]
  /\ UNCHANGED << externalName, desired, status, nextId, pc, cur, calls,
                  result, cdCount >>

\* The owner applies a manifest with another spend limit (absent or given);
\* the schema default fills an absent one. An operation works on the object
\* it was called with.
EditDesired(r, given) ==
  /\ Ready(r)
  /\ given # desired[r].given
  /\ desired' = [desired EXCEPT ![r].given = given,
                                ![r].spendLimit = DefaultSpendLimit(given)]
  /\ UNCHANGED << externalName, status, backend, nextId, pc, cur, calls,
                  result, cdCount >>

\* ---------------------------------------------------------------- initially
\* Spend limits a manifest may carry: absent or 0..MaxSpend.
GivenSpendLimits == {<<>>} \cup { <<n>> : n \in 0..MaxSpend }

\* The Cluster object of resource r as the owner wrote it.
Manifest(r, given, hasRef) ==
  [name |-> r, provider |-> "GCP", regions |-> <<"eu", "us">>,
   given |-> given, spendLimit |-> DefaultSpendLimit(given),
   username |-> <<"user", r>>, passwordSecretRef |-> hasRef]

NoStatus == [id |-> EmptyName, state |-> "", cond |-> "None"]

\* The resources that are reconciled; the others stay as created.
Active == {"r1"}

\* The parts modelled on their own, before anything ran.
NoConn == [pc |-> "none"]
NoFetch == [pc |-> "none"]
NoHttp == [pc |-> "none"]
NoOperation ==
  [op |-> "none", r |-> "", hasRef |-> FALSE, step |-> 0, call |-> "none",
   cancelled |-> FALSE, outcome |-> "none"]
NoProcess ==
  [transport |-> [h \in {"http.DefaultClient", "custom"} |-> <<>>],
   clients |-> <<>>, calls |-> 0, sent |-> <<>>]
aux == << todo, conn, fetch, http, process, inflight >>
AuxInit ==
  /\ todo = [r \in Resources |-> "Observe"]
  /\ conn = NoConn
  /\ fetch = NoFetch
  /\ http = NoHttp
  /\ process = NoProcess
  /\ inflight = NoOperation

Init ==
  /\ externalName \in [Resources -> {EmptyName, MalformedName}]
  /\ \A r \in Resources \ Active : externalName[r] = EmptyName
  /\ \E given \in GivenSpendLimits, hasRef \in BOOLEAN :
       desired = [r \in Resources |->
                    IF r \in Active THEN Manifest(r, given, hasRef)
                    ELSE Manifest(r, <<>>, FALSE)]
  /\ status = [r \in Resources |-> NoStatus]
  /\ backend = [i \in 1..MaxClusters |-> NoCluster]
  /\ nextId = 1
  /\ pc = [r \in Resources |-> "idle"]
  /\ cur = [r \in Resources |-> NoLocals]
  /\ calls = [r \in Resources |-> <<>>]
  /\ result = [r \in Resources |-> NoResult]
  /\ cdCount = [r \in Resources |-> 0]
  /\ AuxInit

\* The external client under any order of operations.
Next ==
  \/ \E r \in Active : Observe(r) /\ UNCHANGED aux
  \/ \E r \in Active : CreateCluster(r) /\ UNCHANGED aux
  \/ \E r \in Active : CreateGetPassword(r) /\ UNCHANGED aux
  \/ \E r \in Active : CreateSQLUser(r) /\ UNCHANGED aux
  \/ \E r \in Active : CreateCACert(r) /\ UNCHANGED aux
  \/ \E r \in Active : Update(r) /\ UNCHANGED aux
  \/ \E r \in Active : Delete(r) /\ UNCHANGED aux
  \/ \E r \in Active : Return(r) /\ UNCHANGED aux
  \/ \E i \in 1..MaxClusters, s \in ClusterStates :
       BackendChange(i, s) /\ UNCHANGED aux
  \/ \E r \in Active, given \in GivenSpendLimits :
       EditDesired(r, given) /\ UNCHANGED aux

Spec == Init /\ [][Next]_vars


\* ------------------------------------------------------ the reconcile loop
\* The managed reconciler's choice after an operation: Create when Observe
\* reported the resource missing, Update when it reported it out of date,
\* Observe again in every other case (an error and a crash included).
Decide(res) ==
  IF res.op = "Observe" /\ res.outcome = "returned" /\ res.err = NilErr
  THEN IF ~res.exists THEN "Create"
       ELSE IF ~res.upToDate THEN "Update"
       ELSE "Observe"
  ELSE "Observe"

\* The reconciler takes the result and chooses the next operation.
Schedule(r) ==
  /\ Return(r)
  /\ todo' = [todo EXCEPT ![r] = Decide(result[r])]
  /\ UNCHANGED << conn, fetch, http, process, inflight >>

\* The provisioning system finishes the creation of cluster i.
Provisioned(i) ==
  /\ Quiet
  /\ i \in LiveClusters
  /\ backend[i].state = CLUSTERSTATETYPE_CREATING
  /\ backend' = [backend EXCEPT ![i].state = CLUSTERSTATETYPE_CREATED]
  /\ UNCHANGED << externalName, desired, status, nextId, pc, cur, calls,
                  result, cdCount >>

\* A cluster of resource r the backend already holds.
Adopted(r, state, limit) ==
  [id |-> Uuid(1), name |-> r, provider |-> "GCP", state |-> state,
   spendLimit |-> limit, regions |-> SqlDns(<<"eu", "us">>)]

\* The reconciliation starts with no cluster, or with the annotation naming
\* a cluster that is being or has been created with some spend limit.
LiveInit ==
  /\ \E given \in GivenSpendLimits, hasRef \in BOOLEAN :
       desired = [r \in Resources |->
                    IF r \in Active THEN Manifest(r, given, hasRef)
                    ELSE Manifest(r, <<>>, FALSE)]
  /\ \/ /\ externalName \in [Resources -> {EmptyName, MalformedName}]
        /\ \A r \in Resources \ Active : externalName[r] = EmptyName
        /\ backend = [i \in 1..MaxClusters |-> NoCluster]
        /\ nextId = 1
     \/ \E r \in Active, limit \in 0..MaxSpend,
           state \in {CLUSTERSTATETYPE_CREATING, CLUSTERSTATETYPE_CREATED} :
          /\ externalName = [x \in Resources |->
                               IF x = r THEN Uuid(1) ELSE EmptyName]
          /\ backend = [i \in 1..MaxClusters |->
                          IF i = 1 THEN Adopted(r, state, limit)
                          ELSE NoCluster]
          /\ nextId = 2
  /\ status = [r \in Resources |-> NoStatus]
  /\ pc = [r \in Resources |-> "idle"]
  /\ cur = [r \in Resources |-> NoLocals]
  /\ calls = [r \in Resources |-> <<>>]
  /\ result = [r \in Resources |-> NoResult]
  /\ cdCount = [r \in Resources |-> 0]
  /\ AuxInit

\* The operations as the reconciler orders them.
LiveObserve(r) == todo[r] = "Observe" /\ Observe(r) /\ UNCHANGED aux
LiveCreateCluster(r) == todo[r] = "Create" /\ CreateCluster(r) /\ UNCHANGED aux
LiveGetPassword(r) == CreateGetPassword(r) /\ UNCHANGED aux
LiveSQLUser(r) == CreateSQLUser(r) /\ UNCHANGED aux
LiveCACert(r) == CreateCACert(r) /\ UNCHANGED aux
LiveUpdate(r) == todo[r] = "Update" /\ Update(r) /\ UNCHANGED aux

LiveNext ==
  \/ \E r \in Active : LiveObserve(r)
  \/ \E r \in Active : LiveCreateCluster(r)
  \/ \E r \in Active : LiveGetPassword(r)
  \/ \E r \in Active : LiveSQLUser(r)
  \/ \E r \in Active : LiveCACert(r)
  \/ \E r \in Active : LiveUpdate(r)
  \/ \E r \in Active : Schedule(r)
  \/ \E i \in 1..MaxClusters : Provisioned(i) /\ UNCHANGED aux

\* The operation of r has just returned without an error.
Succeeded(r) == result[r].outcome = "returned" /\ result[r].err = NilErr

\* The scheduler is fair, a call that is tried again and again succeeds in
\* the end, and a cluster that is being created gets created.
LiveFairness ==
  /\ \A r \in Active : WF_vars(Schedule(r))
  /\ \A r \in Active : SF_vars(LiveObserve(r) /\ Succeeded(r)')
  /\ \A r \in Active : SF_vars(LiveCreateCluster(r) /\ pc'[r] = "getPassword")
  /\ \A r \in Active : SF_vars(LiveGetPassword(r) /\ pc'[r] = "createSQLUser")
  /\ \A r \in Active : SF_vars(LiveSQLUser(r) /\ pc'[r] = "caCert")
  /\ \A r \in Active : SF_vars(LiveCACert(r) /\ Succeeded(r)')
  /\ \A r \in Active : SF_vars(LiveUpdate(r) /\ Succeeded(r)')
  /\ \A i \in 1..MaxClusters : WF_vars(Provisioned(i) /\ UNCHANGED aux)

LiveSpec == LiveInit /\ [][LiveNext]_vars /\ LiveFairness

\* ------------------------------------------------------------------ Connect
\* The resource-independent start of the external client's variables.
CoreIdle ==
  /\ externalName = [r \in Resources |-> EmptyName]
  /\ desired = [r \in Resources |-> Manifest(r, <<>>, FALSE)]
  /\ status = [r \in Resources |-> NoStatus]
  /\ backend = [i \in 1..MaxClusters |-> NoCluster]
  /\ nextId = 1
  /\ pc = [r \in Resources |-> "idle"]
  /\ cur = [r \in Resources |-> NoLocals]
  /\ calls = [r \in Resources |-> <<>>]
  /\ result = [r \in Resources |-> NoResult]
  /\ cdCount = [r \in Resources |-> 0]

\* The error texts of Connect.
errNotCluster == "managed resource is not a Cluster custom resource"
errTrackPCUsage == "cannot track ProviderConfig usage"
errGetPC == "cannot get ProviderConfig"
errGetCreds == "cannot get credentials"
errNewClient == "cannot create new Service"

\* What Connect is called with and what it finds: the managed resource's
\* kind and provider-configuration reference (<<>> when it has none),
\* whether the usage can be recorded, the provider configurations that
\* exist, the credentials the configuration leads to (<<>> when they cannot
\* be extracted) and whether the service can be built from them.
ConnectInputs ==
  [mg : {"Cluster", "Other"},
   ref : {<<>>, <<"default">>},
   trackOk : BOOLEAN,
   configs : SUBSET {"default"},
   creds : {<<>>, <<"key-a">>, <<"key-b">>},
   serviceOk : BOOLEAN]

\* A Connect call at its first step; ran lists the collaborators called,
\* ext is <<>> or the external client returned.
ConnectCall(in) ==
  [pc |-> "typeCheck", in |-> in, ran |-> <<>>, data |-> <<>>,
   err |-> NilErr, ext |-> <<>>]

\* Connect returns nil and the error wrapped with tag.
ConnectFails(c, tag) == [c EXCEPT !.pc = "failed", !.err = Err(tag, 0)]

\* Connect: mg.(*v1alpha1.Cluster)
ConnTypeCheck ==
  /\ conn.pc = "typeCheck"
  /\ conn' = IF conn.in.mg # "Cluster" THEN ConnectFails(conn, errNotCluster)
             ELSE [conn EXCEPT !.pc = "track"]
  /\ UNCHANGED << core, todo, fetch, http, process, inflight >>

\* Connect after c.usage.Track: the tracker refuses a resource without a
\* provider-configuration reference.
AfterTrackIgnoresFailure(c) == [c EXCEPT !.pc = "getPC"]
AfterTrack(c) ==
  IF c.in.ref = <<>> \/ ~c.in.trackOk THEN ConnectFails(c, errTrackPCUsage)
  ELSE [c EXCEPT !.pc = "getPC"]

ConnTrack ==
  /\ conn.pc = "track"
  /\ conn' = AfterTrack([conn EXCEPT !.ran = Append(@, "Track")])
  /\ UNCHANGED << core, todo, fetch, http, process, inflight >>

\* Connect: c.kube.Get of the ProviderConfig the reference names; a missing
\* reference is a nil pointer here.
ConnGetPC ==
  /\ conn.pc = "getPC"
  /\ LET c == [conn EXCEPT !.ran = Append(@, "Get")] IN
     conn' = IF conn.in.ref = <<>> THEN [c EXCEPT !.pc = "panic"]
             ELSE IF conn.in.ref[1] \notin conn.in.configs
             THEN ConnectFails(c, errGetPC)
             ELSE [c EXCEPT !.pc = "extract"]
  /\ UNCHANGED << core, todo, fetch, http, process, inflight >>

\* Connect: resource.CommonCredentialExtractor
ConnExtract ==
  /\ conn.pc = "extract"
  /\ LET c == [conn EXCEPT !.ran = Append(@, "Extract")] IN
     conn' = IF conn.in.creds = <<>> THEN ConnectFails(c, errGetCreds)
             ELSE [c EXCEPT !.pc = "newService", !.data = conn.in.creds]
  /\ UNCHANGED << core, todo, fetch, http, process, inflight >>

\* Connect: c.newServiceFn(data) and the return of &external{...}.
ConnNewService ==
  /\ conn.pc = "newService"
  /\ LET c == [conn EXCEPT !.ran = Append(@, "newServiceFn")] IN
     conn' = IF ~conn.in.serviceOk THEN ConnectFails(c, errNewClient)
             ELSE [c EXCEPT !.pc = "done",
                            !.ext = << [service |-> conn.data] >>]
  /\ UNCHANGED << core, todo, fetch, http, process, inflight >>

ConnInit ==
  /\ CoreIdle
  /\ todo = [r \in Resources |-> "Observe"]
  /\ conn \in { ConnectCall(in) : in \in ConnectInputs }
  /\ fetch = NoFetch
  /\ http = NoHttp
  /\ process = NoProcess
  /\ inflight = NoOperation

ConnNext ==
  \/ ConnTypeCheck
  \/ ConnTrack
  \/ ConnGetPC
  \/ ConnExtract
  \/ ConnNewService

ConnSpec == ConnInit /\ [][ConnNext]_vars

\* ------------------------------------------------------ certificate fetcher
\* URLs as url.Parse yields them: whether the text parsed, whether it names
\* a scheme and host of its own, the host and the path.
Url(host, path) == [ok |-> TRUE, abs |-> TRUE, host |-> host, path |-> path]
BadUrl == [ok |-> FALSE, abs |-> FALSE, host |-> "", path |-> <<>>]
defaultCAURL == Url("cockroachlabs.cloud", <<>>)
LocalCAURL == Url("127.0.0.1:8080", <<>>)

\* (*url.URL).Parse: a reference with a scheme and host of its own is taken
\* as it is, any other is laid over the base.
UrlParse(base, ref) ==
  IF ref.abs THEN ref ELSE [base EXCEPT !.path = base.path \o ref.path]

\* The reference ClusterCACert formats for a cluster.
CertUrl(id) == Url("cockroachlabs.cloud", << "clusters", id, "cert" >>)

\* The HTTP clients a fetcher can be given.
HttpClients == {"http.DefaultClient", "custom"}

\* The options of NewCAClient: none, or one value.
BaseURLOptions == {<<>>, << defaultCAURL >>, << LocalCAURL >>, << BadUrl >>}
HTTPClientOptions == {<<>>} \cup { << c >> : c \in HttpClients }

\* WithBaseURL / WithHTTPClient applied to a CAClient c.
WithBaseURL(c, opt) ==
  IF opt = <<>> THEN c
  ELSE IF ~opt[1].ok THEN [c EXCEPT !.pc = "failed"]
  ELSE [c EXCEPT !.baseURL = opt[1]]
WithHTTPClient(c, opt) ==
  IF opt = <<>> \/ c.pc = "failed" THEN c ELSE [c EXCEPT !.httpClient = opt[1]]

\* NewCAClient: the defaults, then the options in turn; opts keeps what the
\* fetcher was constructed with.
NewCAClient(baseOpt, clientOpt) ==
  /\ fetch = NoFetch
  /\ LET made == [pc |-> "built", baseURL |-> defaultCAURL,
                  httpClient |-> "http.DefaultClient",
                  opts |-> [base |-> baseOpt, client |-> clientOpt],
                  n |-> 0, id |-> EmptyName, res |-> <<>>,
                  target |-> BadUrl, via |-> "", out |-> << <<>>, NilErr >>]
     IN fetch' = WithHTTPClient(WithBaseURL(made, baseOpt), clientOpt)
  /\ UNCHANGED << core, todo, conn, http, process, inflight >>

\* CAClient.ClusterCACert for cluster id, the endpoint answering res: the
\* URL is parsed against baseURL and requested with http.Get.
FetchCACert(id, res) ==
  /\ fetch.pc \in {"built", "fetched"}
  /\ fetch.n < MaxFetches
  /\ fetch' = [fetch EXCEPT !.pc = "fetched", !.n = @ + 1, !.id = id,
                            !.res = res,
                            !.target = UrlParse(fetch.baseURL, CertUrl(id)),
                            !.via = "http.DefaultClient",
                            !.out = ClusterCACert(id, res)]
  /\ UNCHANGED << core, todo, conn, http, process, inflight >>

CaInit ==
  /\ CoreIdle
  /\ AuxInit

CaNext ==
  \/ \E b \in BaseURLOptions, c \in HTTPClientOptions : NewCAClient(b, c)
  \/ \E i \in 1..MaxClusters, res \in CaResponses : FetchCACert(Uuid(i), res)

CaSpec == CaInit /\ [][CaNext]_vars

\* -------------------------------------------------------------- HTTP client
\* Response bodies: nothing, text that is not JSON, or a JSON object given
\* as its members.
EmptyBody == [kind |-> "empty", doc |-> [k \in {} |-> 0]]
TextBody == [kind |-> "text", doc |-> [k \in {} |-> 0]]
JsonBody(doc) == [kind |-> "json", doc |-> doc]
Bodies ==
  { EmptyBody, TextBody, JsonBody([k \in {} |-> 0]),
    JsonBody([code |-> 1, message |-> "not found"]),
    JsonBody([id |-> "c1"]) }

\* json.Unmarshal into a struct whose zero value is zero: <<value, ok>>; a
\* member the struct has no field for is skipped, a field the object has
\* no member for keeps its zero value.
Unmarshal(body, zero) ==
  IF body.kind # "json" THEN << zero, FALSE >>
  ELSE << [f \in DOMAIN zero |->
             IF f \in DOMAIN body.doc THEN body.doc[f] ELSE zero[f]], TRUE >>

\* errorResponse{} and the caller's value before decoding.
ZeroErrorResponse == [code |-> 0, message |-> ""]
ZeroValue == [id |-> ""]

\* *Error
Error(errorCode, httpCode, message) ==
  [what |-> "Error", ErrorCode |-> errorCode, HTTPCode |-> httpCode,
   Message |-> message]

\* Client.handleResponse: <<error, the caller's value>>, the value being
\* <<>> when none was supplied.
handleResponseAbove400(code, body, val) ==
  IF code > 400
  THEN LET e == Unmarshal(body, ZeroErrorResponse) IN
       IF ~e[2] THEN << Err("error umarshalling response error", 0), val >>
       ELSE << Error(e[1].code, code, e[1].message), val >>
  ELSE IF val = <<>> THEN << NilErr, val >>
  ELSE LET v == Unmarshal(body, val[1]) IN
       IF ~v[2] THEN << Err("error umarshalling response error", 0), val >>
       ELSE << NilErr, << v[1] >> >>
handleResponse(code, body, val) ==
  IF code >= 400
  THEN LET e == Unmarshal(body, ZeroErrorResponse) IN
       IF ~e[2] THEN << Err("error umarshalling response error", 0), val >>
       ELSE << Error(e[1].code, code, e[1].message), val >>
  ELSE IF val = <<>> THEN << NilErr, val >>
  ELSE LET v == Unmarshal(body, val[1]) IN
       IF ~v[2] THEN << Err("error umarshalling response error", 0), val >>
       ELSE << NilErr, << v[1] >> >>

\* The method each of get, post, patch and delete puts on its request.
RequestMethod(wrapper) ==
  CASE wrapper = "get" -> "GET"
    [] wrapper = "post" -> "POST"
    [] wrapper = "patch" -> "PATCH"
    [] wrapper = "delete" -> "PATCH"

\* The statuses the server answers with; 0 stands for no answer.
Statuses == {200, 201, 204, 400, 404, 500}

\* Client.do behind one of the wrappers: the transport fails (status 0), or
\* the server answers code and body; val is <<>> or the caller's value.
ClientDo(wrapper, code, body, val) ==
  /\ http' =
       IF code = 0
       THEN [pc |-> "done", method |-> RequestMethod(wrapper),
             status |-> code, body |-> EmptyBody, given |-> val,
             res |-> <<>>, err |-> Err("error making request", 0),
             val |-> val]
       ELSE LET out == handleResponse(code, body, val) IN
            [pc |-> "done", method |-> RequestMethod(wrapper),
             status |-> code, body |-> body, given |-> val,
             res |-> << code >>, err |-> out[1], val |-> out[2]]
  /\ UNCHANGED << core, todo, conn, fetch, process, inflight >>

ClientInit ==
  /\ CoreIdle
  /\ AuxInit

ClientNext ==
  \E wrapper \in {"get", "post", "patch", "delete"},
     code \in Statuses \cup {0}, body \in Bodies,
     val \in {<<>>, << ZeroValue >>} :
    ClientDo(wrapper, code, body, val)

ClientSpec == ClientInit /\ [][ClientNext]_vars

\* ------------------------------------------------- access-token transport
\* process.transport is, for each http.Client of the process, the chain of
\* accessTokenTransports on its Transport field, the outermost first (<<>>:
\* the default transport alone); process.clients are the Clients built, each
\* with the http.Client it holds and the token option it was given, and
\* process.calls the number of NewClient calls made;
\* process.sent is the last request as the server received it.
AccessTokens == {"a", "b"}

\* The options of NewClient that touch the http.Client; WithHTTPClient(nil)
\* stands for http.DefaultClient.
ClientOptions ==
  { [opt |-> "WithHTTPClient", arg |-> h] : h \in {"nil", "custom"} }
  \cup { [opt |-> "WithAccessToken", arg |-> t] : t \in AccessTokens \cup {""} }

\* The option lists tried: none, one option, or a client and a token in
\* either order.
OptionLists ==
  { <<>> } \cup { << o >> : o \in ClientOptions }
  \cup { << o1, o2 >> : o1, o2 \in ClientOptions }

\* One option applied to the Client under construction: b.client is the
\* http.Client it holds, b.transport the transports of the process.
ApplyOption(b, o) ==
  IF b.failed THEN b
  ELSE IF o.opt = "WithHTTPClient"
  THEN [b EXCEPT !.client = IF o.arg = "nil" THEN "http.DefaultClient"
                            ELSE o.arg]
  ELSE IF o.arg = "" THEN [b EXCEPT !.failed = TRUE]
  ELSE [b EXCEPT !.transport[b.client] = << o.arg >> \o @,
                 !.token = << o.arg >>]

\* NewClient's loop over its options.
RECURSIVE ApplyOptions(_, _)
ApplyOptions(b, opts) ==
  IF opts = <<>> THEN b
  ELSE ApplyOptions(ApplyOption(b, Head(opts)), Tail(opts))

\* NewClient(opts...): the Client starts with http.DefaultClient; what the
\* options did to the transports stays when an option fails.
NewClient(opts) ==
  /\ process.calls < MaxClients
  /\ LET b == ApplyOptions([client |-> "http.DefaultClient",
                            transport |-> process.transport,
                            token |-> <<>>,
                            failed |-> FALSE], opts)
     IN process' =
          [process EXCEPT
             !.transport = b.transport,
             !.calls = @ + 1,
             !.clients = IF b.failed THEN @
                         ELSE Append(@, [client |-> b.client,
                                         token |-> b.token]),
             !.sent = <<>>]
  /\ UNCHANGED << core, todo, conn, fetch, http, inflight >>

\* accessTokenTransport.RoundTrip down a chain: each adds its header and
\* passes the request on.
Authorization(chain) == [i \in 1..Len(chain) |-> << "Bearer: ", chain[i] >>]

\* The i-th Client sends a request (Client.do: c.client.Do).
ClientSend(i) ==
  /\ i \in 1..Len(process.clients)
  /\ LET c == process.clients[i] IN
     process' = [process EXCEPT !.sent =
       << [by |-> i,
           auth |-> Authorization(process.transport[c.client])] >>]
  /\ UNCHANGED << core, todo, conn, fetch, http, inflight >>

\* Other code of the process sends a request through http.DefaultClient
\* (http.Get).
DefaultSend ==
  /\ process' = [process EXCEPT !.sent =
       << [by |-> 0,
           auth |-> Authorization(process.transport["http.DefaultClient"])] >>]
  /\ UNCHANGED << core, todo, conn, fetch, http, inflight >>

TokenInit ==
  /\ CoreIdle
  /\ AuxInit

TokenNext ==
  \/ \E opts \in OptionLists : NewClient(opts)
  \/ \E i \in 1..MaxClients : ClientSend(i)
  \/ DefaultSend

TokenSpec == TokenInit /\ [][TokenNext]_vars

\* ------------------------------------- the reconcile loop, any environment
\* The reconciler orders the operations while the provisioning system
\* changes clusters and the owner edits the manifest as they like.
SchedNext ==
  \/ LiveNext
  \/ \E i \in 1..MaxClusters, s \in ClusterStates :
       BackendChange(i, s) /\ UNCHANGED aux
  \/ \E r \in Active, given \in GivenSpendLimits :
       EditDesired(r, given) /\ UNCHANGED aux

SchedSpec == Init /\ [][SchedNext]_vars

\* ------------------------------------ the reconcile loop, a faulty backend
\* GetCluster answers not-found for a cluster the backend holds (a replica
\* that has not seen it yet).
ObserveNotFound(r) ==
  /\ todo[r] = "Observe"
  /\ Ready(r)
  /\ isValidUUID(GetExternalName(r))
  /\ Lookup(GetExternalName(r)) # NoCluster
  /\ calls' = [calls EXCEPT ![r] =
       << Call("GetCluster", GetExternalName(r), NoBody) >>]
  /\ ObserveReply(r, Reply(NoCluster, <<StatusNotFound>>,
                           Err("GetCluster", StatusNotFound)))
  /\ UNCHANGED << externalName, desired, backend, nextId, pc, cur, cdCount >>

\* CreateCluster creates the cluster and answers with an identifier that is
\* not a well-formed UUID.
CreateClusterMalformed(r) ==
  /\ todo[r] = "Create"
  /\ Ready(r)
  /\ nextId <= MaxClusters
  /\ calls' = [calls EXCEPT ![r] =
       << Call("CreateCluster", EmptyName, CreateClusterRequest(desired[r])) >>]
  /\ CreateClusterReply(r,
       Reply([NewCluster(CreateClusterRequest(desired[r]))
                EXCEPT !.id = MalformedName], <<StatusOK>>, NilErr))
  /\ UNCHANGED << desired, status, cdCount >>

\* CreateCluster creates the cluster and its answer is lost on the way:
\* Create returns the transport's error and the annotation stays.
CreateClusterLost(r) ==
  /\ todo[r] = "Create"
  /\ Ready(r)
  /\ nextId <= MaxClusters
  /\ calls' = [calls EXCEPT ![r] =
       << Call("CreateCluster", EmptyName, CreateClusterRequest(desired[r])) >>]
  /\ backend' = [backend EXCEPT ![nextId] =
                   NewCluster(CreateClusterRequest(desired[r]))]
  /\ nextId' = nextId + 1
  /\ result' = [result EXCEPT ![r] =
       [Returned("Create", r, Answer(<<>>, Err("CreateCluster", 0)))
          EXCEPT !.err = Err("CreateCluster", 0)]]
  /\ UNCHANGED << externalName, desired, status, pc, cur, cdCount >>

AdverseNext ==
  \/ SchedNext
  \/ \E r \in Active : ObserveNotFound(r) /\ UNCHANGED aux
  \/ \E r \in Active : CreateClusterMalformed(r) /\ UNCHANGED aux
  \/ \E r \in Active : CreateClusterLost(r) /\ UNCHANGED aux

AdverseSpec == Init /\ [][AdverseNext]_vars

\* --------------------------------------------------- cancellation context
\* The network calls of an operation, in the order it makes them; hasRef
\* tells whether Create reads the password secret.
NetworkCalls(op, hasRef) ==
  CASE op = "Observe" -> << "GetCluster" >>
    [] op = "Create" ->
         << "CreateCluster" >>
         \o (IF hasRef THEN << "GetSecret" >> ELSE <<>>)
         \o << "CreateSQLUser", "ClusterCACert" >>
    [] op = "Update" -> << "UpdateCluster" >>
    [] op = "Delete" -> << "DeleteCluster" >>

\* Whether a call is made with the caller's context: the SDK calls and
\* kube.Get receive ctx; ClusterCACert receives it and requests with
\* http.Get, which carries no context.
UnderContext(call) == call # "ClusterCACert"

\* The operation c goes on to its k-th call: past the last one it returns
\* nil; a call under a cancelled context returns the context's error at
\* once; any other call is sent and pending.
Issue(c, k) ==
  LET list == NetworkCalls(c.op, c.hasRef) IN
  IF k > Len(list)
  THEN [c EXCEPT !.step = k, !.call = "none", !.outcome = "nil"]
  ELSE IF c.cancelled /\ UnderContext(list[k])
  THEN [c EXCEPT !.step = k, !.call = "none", !.outcome = "context canceled"]
  ELSE [c EXCEPT !.step = k, !.call = list[k]]

\* The reconciler calls op on resource r.
CtxStart(op, r, hasRef) ==
  /\ inflight = NoOperation
  /\ inflight' = Issue([NoOperation EXCEPT !.op = op, !.r = r,
                                           !.hasRef = hasRef], 1)
  /\ UNCHANGED << core, todo, conn, fetch, http, process >>

\* The caller cancels the context of the running operation.
CtxCancel ==
  /\ inflight.op # "none"
  /\ inflight.outcome = "none"
  /\ ~inflight.cancelled
  /\ inflight' = [inflight EXCEPT !.cancelled = TRUE]
  /\ UNCHANGED << core, todo, conn, fetch, http, process >>

\* The server answers the pending call: the operation goes on, or returns
\* the call's error.
CtxAnswer(ok) ==
  /\ inflight.call # "none"
  /\ inflight' = IF ok THEN Issue(inflight, inflight.step + 1)
                 ELSE [inflight EXCEPT !.call = "none",
                                       !.outcome = "call failed"]
  /\ UNCHANGED << core, todo, conn, fetch, http, process >>

\* A pending call made under the context returns when it is cancelled.
CtxAbort ==
  /\ inflight.call # "none"
  /\ inflight.cancelled
  /\ UnderContext(inflight.call)
  /\ inflight' = [inflight EXCEPT !.call = "none",
                                  !.outcome = "context canceled"]
  /\ UNCHANGED << core, todo, conn, fetch, http, process >>

\* The reconciler takes what the operation returned.
CtxReturn ==
  /\ inflight.outcome # "none"
  /\ inflight' = NoOperation
  /\ UNCHANGED << core, todo, conn, fetch, http, process >>

CtxInit ==
  /\ CoreIdle
  /\ AuxInit

CtxNext ==
  \/ \E op \in {"Observe", "Create", "Update", "Delete"}, r \in Resources,
        hasRef \in BOOLEAN : CtxStart(op, r, hasRef)
  \/ CtxCancel
  \/ \E ok \in BOOLEAN : CtxAnswer(ok)
  \/ CtxAbort
  \/ CtxReturn

\* The server may never answer; a call under a cancelled context does
\* return.
CtxSpec == CtxInit /\ [][CtxNext]_vars /\ WF_vars(CtxAbort)

\* ------------------------------------------------- two resources at once
\* Two Cluster objects, each with its own manifest, none created yet; the
\* second takes its password from a secret.
PairInit ==
  /\ externalName = [r \in Resources |-> EmptyName]
  /\ desired = [r \in Resources |-> Manifest(r, <<>>, r # "r1")]
  /\ status = [r \in Resources |-> NoStatus]
  /\ backend = [i \in 1..MaxClusters |-> NoCluster]
  /\ nextId = 1
  /\ pc = [r \in Resources |-> "idle"]
  /\ cur = [r \in Resources |-> NoLocals]
  /\ calls = [r \in Resources |-> <<>>]
  /\ result = [r \in Resources |-> NoResult]
  /\ cdCount = [r \in Resources |-> 0]
  /\ AuxInit

\* The reconciler runs one worker per object: the operations of the two
\* resources interleave call by call, on one service.
PairNext ==
  \/ \E r \in Resources : Observe(r) /\ UNCHANGED aux
  \/ \E r \in Resources : CreateCluster(r) /\ UNCHANGED aux
  \/ \E r \in Resources : CreateGetPassword(r) /\ UNCHANGED aux
  \/ \E r \in Resources : CreateSQLUser(r) /\ UNCHANGED aux
  \/ \E r \in Resources : CreateCACert(r) /\ UNCHANGED aux
  \/ \E r \in Resources : Update(r) /\ UNCHANGED aux
  \/ \E r \in Resources : Delete(r) /\ UNCHANGED aux
  \/ \E r \in Resources : Return(r) /\ UNCHANGED aux

PairSpec == PairInit /\ [][PairNext]_vars

\* =================================================================== claims
\* An identifier that is empty or not a well-formed UUID.
Invalid(name) == name.kind \in {"empty", "malformed"}

\* The operation of r that has returned and whose result is at hand.
Did(r, op) == result[r].op = op /\ result[r].outcome = "returned"

\* C1: for every resource whose external-name annotation is empty or not a
\* well-formed UUID, Observe returns exists=false with no error and issues
\* no get-cluster call.
C1_ObserveInvalidIdentifier ==
  \A r \in Resources :
    result[r].op = "Observe" /\ Invalid(result[r].args.name) =>
      /\ result[r].outcome = "returned"
      /\ ~result[r].exists
      /\ result[r].err = NilErr
      /\ calls[r] = <<>>

C1_Witness ==
  \E r \in Resources :
    /\ Did(r, "Observe")
    /\ result[r].args.name = MalformedName
    /\ ~result[r].exists

\* The steps of Create that follow meta.SetExternalName.
LaterSteps == {"getPassword", "createSQLUser", "caCert"}

\* C2: Create puts the identifier create-cluster returned on the annotation
\* before it resolves the password, creates the SQL user or fetches the CA
\* certificate; when one of those steps fails the annotation is still the
\* created cluster's identifier, a well-formed one the backend holds, and an
\* Observe called with a well-formed identifier queries the backend with it.
C2_IdentifierPersistedFirst ==
  \A r \in Resources :
    /\ pc[r] \in LaterSteps =>
         /\ externalName[r] = cur[r].cluster.id
         /\ Lookup(externalName[r]) # NoCluster
    /\ pc[r] = "getPassword" =>
         calls[r] = << Call("CreateCluster", EmptyName,
                            CreateClusterRequest(desired[r])) >>
    /\ Did(r, "Create") /\ result[r].err.what \notin {"nil", "CreateCluster"} =>
         /\ externalName[r] = result[r].seen.id
         /\ externalName[r].kind = "uuid"
         /\ Lookup(externalName[r]) # NoCluster
    /\ result[r].op = "Observe" /\ result[r].args.name.kind = "uuid" =>
         calls[r] = << Call("GetCluster", externalName[r], NoBody) >>

C2_Witness ==
  \E r \in Resources :
    /\ Did(r, "Create")
    /\ result[r].err.what = "CreateSQLUser"
    /\ result[r].args.name = EmptyName
    /\ externalName[r] = result[r].seen.id

\* Every get, update and delete call of the operation at hand is keyed by
\* the annotation.
KeyedByName(r) ==
  \A i \in 1..Len(calls[r]) :
    calls[r][i].call \in {"GetCluster", "UpdateCluster", "DeleteCluster"} =>
      calls[r][i].key = externalName[r]

\* C3 as claimed: once the annotation holds an identifier it never changes to
\* another value, and every get/update/delete call is keyed by it.
C3_NameNeverChanges ==
  [][\A r \in Resources :
       /\ externalName[r].kind = "uuid" => externalName'[r] = externalName[r]
       /\ KeyedByName(r)']_vars

\* C3 amended: the annotation changes only in a Create whose create-cluster
\* call succeeded, which sets it to the identifier of the cluster just
\* created, whatever it held before; Observe, Update and Delete never change
\* it, and every get/update/delete call is keyed by its current value.
C3_NameChangesOnlyInCreate ==
  [][\A r \in Resources :
       /\ externalName'[r] # externalName[r] =>
            /\ pc[r] = "idle" /\ pc'[r] = "getPassword"
            /\ result'[r].op = "Create"
            /\ externalName'[r] = cur'[r].cluster.id
            /\ Lookup(externalName'[r]) = NoCluster
            /\ backend'[externalName'[r].n].id = externalName'[r]
       /\ KeyedByName(r)']_vars

C3_Witness ==
  \E r \in Resources :
    /\ Did(r, "Observe")
    /\ externalName[r] = Uuid(2)
    /\ calls[r] = << Call("GetCluster", Uuid(2), NoBody) >>
    /\ backend[1].state = CLUSTERSTATETYPE_DELETED

\* C4 as claimed: with a valid identifier, a get-cluster failure answered
\* not-found gives exists=false and no error; every other get-cluster
\* failure, a transport failure without a response included, is returned as
\* the error.
C4_GetClusterFailures ==
  \A r \in Resources :
    result[r].op = "Observe" /\ result[r].answer.err # NilErr =>
      /\ result[r].outcome = "returned"
      /\ IF result[r].answer.res = <<StatusNotFound>>
         THEN ~result[r].exists /\ result[r].err = NilErr
         ELSE result[r].err = result[r].answer.err

\* The GetCluster call of the Observe at hand succeeded.
Observed(r) ==
  /\ Did(r, "Observe")
  /\ calls[r] # <<>>
  /\ result[r].answer.err = NilErr

\* C5: when get-cluster succeeds and the cluster's state is DELETED, Observe
\* returns exists=false with no error.
C5_DeletedIsGone ==
  \A r \in Resources :
    result[r].op = "Observe" /\ calls[r] # <<>> /\ result[r].answer.err = NilErr
      /\ result[r].seen.state = CLUSTERSTATETYPE_DELETED =>
        /\ result[r].outcome = "returned"
        /\ ~result[r].exists
        /\ result[r].err = NilErr

C5_Witness ==
  \E r \in Resources :
    /\ Observed(r)
    /\ result[r].seen.state = CLUSTERSTATETYPE_DELETED
    /\ result[r].seen.id = externalName[r]

\* The condition the claim names for a lifecycle state other than DELETED.
ClaimedCondition(state) ==
  IF state = "CREATED" THEN "Available"
  ELSE IF state = "CREATING" THEN "Creating"
  ELSE "Unavailable"

\* C6: when get-cluster succeeds with a state other than DELETED, Observe
\* returns exists=true, the observed status holds the cluster's identifier
\* and state, and the condition is Available for CREATED, Creating for
\* CREATING and Unavailable for UNSPECIFIED, CREATION_FAILED and LOCKED.
C6_ObservedStatus ==
  \A r \in Resources :
    Observed(r) /\ result[r].seen.state # "DELETED" =>
      /\ result[r].exists
      /\ result[r].err = NilErr
      /\ result[r].seen.state \in
           {"CREATED", "CREATING", "CLUSTER_STATE_UNSPECIFIED",
            "CREATION_FAILED", "LOCKED"}
      /\ status[r].id = result[r].seen.id
      /\ status[r].state = result[r].seen.state
      /\ status[r].cond = ClaimedCondition(result[r].seen.state)

C6_Witness ==
  \E r \in Resources :
    /\ Observed(r)
    /\ result[r].seen.state = "LOCKED"
    /\ status[r].cond = "Unavailable"
    /\ status[r].id = externalName[r]


\* The desired spend limit, 0 when the manifest gives none.
SpendLimitOrZero(given) == IF given = <<>> THEN 0 ELSE given[1]

\* The desired objects that differ from cr in provider, regions, name or
\* username only, and the clusters that differ from c in those or in state.
OtherDesired(cr) ==
  { [cr EXCEPT !.provider = p, !.regions = g, !.name = n, !.username = u] :
      p \in Providers, g \in {<<"eu", "us">>, <<"ap">>},
      n \in Resources, u \in {<<"user", "r1">>, <<"user", "r2">>} }
OtherCluster(c) ==
  { [c EXCEPT !.provider = p, !.regions = g, !.name = n, !.state = s] :
      p \in Providers, g \in {SqlDns(<<"eu", "us">>), SqlDns(<<"ap">>)},
      n \in Resources, s \in ClusterStates }

\* C7: for an existing, non-deleted cluster Observe's upToDate is true
\* exactly when the desired spend limit (0 when absent) equals the spend
\* limit the backend reports, and no change of another desired or observed
\* field changes it.
C7_UpToDateIsSpendLimit ==
  \A r \in Resources :
    Observed(r) /\ result[r].exists =>
      /\ result[r].upToDate =
           (SpendLimitOrZero(desired[r].given) = result[r].seen.spendLimit)
      /\ \A cr \in OtherDesired(desired[r]), c \in OtherCluster(result[r].seen) :
           isUpToDate(cr, c) = result[r].upToDate

C7_Witness ==
  \E r \in Resources :
    /\ Observed(r)
    /\ result[r].exists
    /\ ~result[r].upToDate
    /\ desired[r].given = <<>>
    /\ result[r].seen.spendLimit = 1

\* C8: when the create-cluster call fails, Create returns that error, the
\* annotation is what it was, and no secret is read, no SQL user created
\* and no CA certificate fetched.
C8_CreateClusterFails ==
  \A r \in Resources :
    result[r].op = "Create" /\ result[r].answer.err.what = "CreateCluster" =>
      /\ result[r].outcome = "returned"
      /\ result[r].err = result[r].answer.err
      /\ externalName[r] = result[r].args.name
      /\ calls[r] = << Call("CreateCluster", EmptyName,
                            CreateClusterRequest(desired[r])) >>
      /\ result[r].cd = NoConnectionDetails
      /\ pc[r] = "idle"

C8_Witness ==
  \E r \in Resources :
    /\ Did(r, "Create")
    /\ result[r].err.what = "CreateCluster"
    /\ externalName[r] = MalformedName

\* C9 as claimed: over any sequence of reconciliations connection details
\* are produced at most once.
C9_ProducedAtMostOnce == \A r \in Resources : cdCount[r] <= 1

\* The names of the calls of the operation at hand, in order, without the
\* secret read.
CallNames(r) ==
  LET named == [i \in 1..Len(calls[r]) |-> calls[r][i].call]
  IN SelectSeq(named, LAMBDA c : c # "GetSecret")

\* C9 amended: connection details are produced only by a Create that
\* succeeded in all of its steps, the CA endpoint answering 200 included,
\* and never by Observe, Update or Delete; every such Create produces them,
\* so a Create that succeeds after an earlier one produces them again.
C9_ProducedOnlyByFullCreate ==
  \A r \in Resources :
    /\ result[r].cd # NoConnectionDetails =>
         /\ Did(r, "Create")
         /\ result[r].err = NilErr
         /\ CallNames(r) = <<"CreateCluster", "CreateSQLUser", "ClusterCACert">>
         /\ result[r].answer = Answer(<<StatusOK>>, NilErr)
         /\ cdCount[r] >= 1
    /\ Did(r, "Create") /\ result[r].err = NilErr =>
         result[r].cd # NoConnectionDetails
    /\ cdCount[r] <= nextId - 1

C9_Witness ==
  \E r \in Resources :
    /\ cdCount[r] = 2
    /\ Did(r, "Create")
    /\ result[r].cd # NoConnectionDetails
    /\ externalName[r] = Uuid(2)

\* C10: a successful Create returns connection details with exactly two
\* entries, the CA certificate and the DSN; Observe and Update return empty
\* connection details and a failed Create returns none.
C10_ConnectionDetailsShape ==
  \A r \in Resources :
    /\ Did(r, "Create") /\ result[r].err = NilErr =>
         /\ DOMAIN result[r].cd = {"ca.crt", "dsn"}
         /\ result[r].cd["ca.crt"] = CaBody(result[r].seen.id)
         /\ Len(result[r].cd["dsn"]) = 9
         /\ result[r].cd["dsn"][1] = "postgresql://"
    /\ Did(r, "Create") /\ result[r].err # NilErr =>
         result[r].cd = NoConnectionDetails
    /\ result[r].op \in {"Observe", "Update"} =>
         result[r].cd = NoConnectionDetails

C10_Witness ==
  \E r \in Resources :
    /\ Did(r, "Create")
    /\ result[r].err = NilErr
    /\ DOMAIN result[r].cd = {"ca.crt", "dsn"}

Runs(r, op) == result[r] = NoResult /\ result'[r].op = op

\* C12: Update issues exactly one call, update-cluster, keyed by the
\* annotation and carrying only the desired spend limit, and leaves the
\* annotation and the observed status as they were.
C12_UpdateFrame ==
  [][\A r \in Resources :
       Runs(r, "Update") =>
         /\ calls'[r] = << Call("UpdateCluster", externalName[r],
                                [spendLimit |-> desired[r].spendLimit[1]]) >>
         /\ externalName' = externalName
         /\ status' = status
         /\ desired' = desired]_vars

C12_Witness ==
  \E r \in Resources :
    /\ Did(r, "Update")
    /\ result[r].err = NilErr
    /\ Len(calls[r]) = 1
    /\ calls[r][1].call = "UpdateCluster"
    /\ result[r].seen.spendLimit = desired[r].spendLimit[1]

\* ------------------------------------------------------------------ Delete
\* C13: Delete issues exactly one call, delete-cluster, keyed by the stored
\* annotation; it returns nil when the backend succeeds and the backend's
\* error as it is otherwise, and changes nothing the resource holds.
C13_DeleteFrame ==
  [][\A r \in Resources :
       Runs(r, "Delete") =>
         /\ calls'[r] = << Call("DeleteCluster", externalName[r], NoBody) >>
         /\ result'[r].outcome = "returned"
         /\ result'[r].err = result'[r].answer.err
         /\ UNCHANGED << externalName, desired, status, pc, cur, cdCount >>]_vars

C13_Witness ==
  \E r \in Resources :
    /\ Did(r, "Delete")
    /\ result[r].err # NilErr
    /\ result[r].err = result[r].answer.err
    /\ calls[r] = << Call("DeleteCluster", externalName[r], NoBody) >>

\* ---------------------------------------------------------- DSN and password
\* The password Create resolved: the one its create-SQL-user call carried.
ResolvedPassword(r) ==
  LET users == SelectSeq(calls[r], LAMBDA c : c.call = "CreateSQLUser")
  IN users[1].body.password

\* The secret the last call of r read, when that call read one.
SecretRead(r) == calls[r][Len(calls[r])].body

\* C15: the DSN a successful Create returns is postgresql://, the desired
\* username, ":", the resolved password, "@", the SQL endpoint of the
\* created cluster's first region, the port and options text, "%3D" and the
\* created cluster's name, in that order and with nothing else.
C15_DsnFormat ==
  \A r \in Resources :
    Did(r, "Create") /\ result[r].err = NilErr =>
      /\ result[r].cd["dsn"] =
           << "postgresql://", desired[r].username, ":", ResolvedPassword(r),
              "@", << "sql", desired[r].regions[1] >>,
              ":26257/defaultdb?sslmode=verify-full&options=--cluster",
              "%3D", desired[r].name >>
      /\ result[r].seen.name = desired[r].name
      /\ result[r].seen.regions[1] = << "sql", desired[r].regions[1] >>
      /\ result[r].seen.id = externalName[r]
      /\ desired[r].passwordSecretRef =>
           ResolvedPassword(r) \in {"s3cret", "hunter2"}
      /\ ~desired[r].passwordSecretRef =>
           ResolvedPassword(r) \in GeneratedPasswords

C15_Witness ==
  \E r \in Resources :
    /\ Did(r, "Create")
    /\ result[r].err = NilErr
    /\ result[r].cd["dsn"][4] = "hunter2"
    /\ result[r].cd["dsn"][6] = << "sql", "eu" >>
    /\ result[r].cd["dsn"][9] = r

\* C16: with a password secret reference, the password Create goes on with
\* is the value stored under the referenced key of the secret it read, the
\* same for every reading of that secret; when the secret has no such key
\* Create fails with the key-not-found error and when the secret cannot be
\* read with the store's error, and in both cases no create-SQL-user call
\* is made.
C16_PasswordFromSecret ==
  \A r \in Resources :
    /\ pc[r] = "createSQLUser" /\ desired[r].passwordSecretRef =>
         /\ calls[r][Len(calls[r])].call = "GetSecret"
         /\ SecretRead(r).readable
         /\ PasswordKey \in DOMAIN SecretRead(r).data
         /\ cur[r].pwd = SecretRead(r).data[PasswordKey]
    /\ Did(r, "Create") /\ calls[r][Len(calls[r])].call = "GetSecret" =>
         /\ desired[r].passwordSecretRef
         /\ ~SecretRead(r).readable =>
              result[r].err = Err("getPassword: kube.Get", 0)
         /\ SecretRead(r).readable =>
              /\ PasswordKey \notin DOMAIN SecretRead(r).data
              /\ result[r].err = Err("getPassword: secret key not found", 0)
         /\ CallNames(r) = << "CreateCluster" >>
    /\ \A store \in SecretStores :
         store.readable /\ PasswordKey \in DOMAIN store.data =>
           getPassword(TRUE, store) = { << store.data[PasswordKey], NilErr >> }

C16_Witness ==
  \E r \in Resources :
    /\ pc[r] = "createSQLUser"
    /\ desired[r].passwordSecretRef
    /\ SecretRead(r).data = [k \in {PasswordKey} |-> "hunter2"]
    /\ cur[r].pwd = "hunter2"

\* ------------------------------------------------------------- convergence
\* Observe has reported that the resource exists and is up to date.
Converged(r) ==
  /\ Did(r, "Observe")
  /\ result[r].err = NilErr
  /\ result[r].exists
  /\ result[r].upToDate

\* A Create or an Update of r is chosen, running or just returned.
Writes(r) ==
  \/ todo[r] \in {"Create", "Update"}
  \/ result[r].op \in {"Create", "Update"}
  \/ pc[r] # "idle"

\* C14: with the reconciler choosing Create after exists=false and Update
\* after upToDate=false, calls that succeed in the end and an unchanged
\* desired state, an Observe eventually reports exists=true and
\* upToDate=true, and from then on no Create and no Update is issued.
C14_Converges ==
  \A r \in Active :
    /\ <>Converged(r)
    /\ [](Converged(r) => []~Writes(r))

C14_Witness ==
  \E r \in Active :
    /\ Converged(r)
    /\ cdCount[r] = 1
    /\ result[r].seen.state = CLUSTERSTATETYPE_CREATED
    /\ result[r].seen.spendLimit = MaxSpend

\* ------------------------------------------------------------------ Connect
\* The steps of Connect that call a collaborator, in the order claimed.
ConnectOrder == << "Track", "Get", "Extract", "newServiceFn" >>

\* The first step that fails for the inputs, as <<collaborators called, tag>>.
FirstFailure(in) ==
  IF in.mg # "Cluster" THEN << 0, errNotCluster >>
  ELSE IF in.ref = <<>> \/ ~in.trackOk THEN << 1, errTrackPCUsage >>
  ELSE IF in.ref[1] \notin in.configs THEN << 2, errGetPC >>
  ELSE IF in.creds = <<>> THEN << 3, errGetCreds >>
  ELSE IF ~in.serviceOk THEN << 4, errNewClient >>
  ELSE << 4, "nil" >>

\* C17: Connect calls its collaborators in the order tracker, provider
\* configuration fetch, credential extraction, client construction, after
\* the type check; it stops at the first step that fails, with the error
\* tagged for that step and no later collaborator called, and it returns an
\* external client only when every step succeeded.
C17_ConnectOrder ==
  conn.pc # "none" =>
    /\ conn.pc # "panic"
    /\ Len(conn.ran) <= FirstFailure(conn.in)[1]
    /\ conn.ran = SubSeq(ConnectOrder, 1, Len(conn.ran))
    /\ conn.pc \in {"failed", "done"} =>
         /\ Len(conn.ran) = FirstFailure(conn.in)[1]
         /\ conn.err = Err(FirstFailure(conn.in)[2], 0)
    /\ conn.pc = "failed" <=> conn.err # NilErr
    /\ conn.ext # <<>> <=> conn.pc = "done"
    /\ conn.pc = "done" => conn.ext = << [service |-> conn.in.creds] >>

C17_Witness ==
  /\ conn.pc = "failed"
  /\ conn.in.mg = "Cluster"
  /\ conn.in.ref # <<>>
  /\ ~conn.in.trackOk
  /\ conn.in.configs # {}
  /\ conn.in.creds # <<>>
  /\ conn.in.serviceOk
  /\ conn.ran = << "Track" >>
  /\ conn.err = Err(errTrackPCUsage, 0)

C19_UsesConfigured ==
  fetch.pc = "fetched" =>
    /\ fetch.target.host =
         IF fetch.opts.base = <<>> THEN "cockroachlabs.cloud"
         ELSE fetch.opts.base[1].host
    /\ fetch.via =
         IF fetch.opts.client = <<>> THEN "http.DefaultClient"
         ELSE fetch.opts.client[1]

\* -------------------------------------------------------------- HTTP client
\* The server answered and do has returned.
Answered == http.pc = "done" /\ http.res # <<>>

\* The body is a JSON error document.
ErrorDocument(body) ==
  body.kind = "json" /\ {"code", "message"} \subseteq DOMAIN body.doc

\* A status of 400 or more with a JSON error document: the response and an
\* Error with that status and the document's code and message.
ErrorsDecoded ==
  Answered /\ http.status >= 400 /\ ErrorDocument(http.body) =>
    /\ http.res = << http.status >>
    /\ http.err = [what |-> "Error", ErrorCode |-> http.body.doc.code,
                   HTTPCode |-> http.status,
                   Message |-> http.body.doc.message]
    /\ http.val = http.given

SentBy(i) == process.sent # <<>> /\ process.sent[1].by = i

\* C21 as claimed: every request sent through a Client built with
\* WithAccessToken(t) reaches the server with the Authorization header
\* "Bearer: t" (the value the server reads, the first one), whatever
\* Clients were built besides it.
C21_OwnTokenSent ==
  \A i \in 1..Len(process.clients) :
    SentBy(i) /\ process.clients[i].token # <<>> =>
      /\ process.sent[1].auth # <<>>
      /\ process.sent[1].auth[1] = << "Bearer: ", process.clients[i].token[1] >>

\* C26 as claimed: a Client built without WithAccessToken sends no
\* Authorization header, one built with it sends exactly one, and the
\* default HTTP client of the process sends none, whichever Clients were
\* built.
C26_HeadersPerClient ==
  /\ \A i \in 1..Len(process.clients) :
       SentBy(i) =>
         Len(process.sent[1].auth) =
           IF process.clients[i].token = <<>> THEN 0 ELSE 1
  /\ SentBy(0) => process.sent[1].auth = <<>>

\* ------------------------------------------------------- the steps of Create
\* The calls of r's operation by name, the secret read included.
Names(r) == [i \in 1..Len(calls[r]) |-> calls[r][i].call]

\* The calls of a Create that runs to its end.
StepsOf(r) ==
  << "CreateCluster" >>
  \o (IF desired[r].passwordSecretRef THEN << "GetSecret" >> ELSE <<>>)
  \o << "CreateSQLUser", "ClusterCACert" >>

\* C23: the calls of one Create are a beginning of create-cluster, password
\* resolution, create-SQL-user, CA fetch, each made once and only after the
\* ones before it succeeded; a failed step ends the Create with that step's
\* error, and a Create that succeeds has made them all.
C23_CreateStepsInOrder ==
  \A r \in Resources :
    result[r].op = "Create" =>
      /\ Names(r) = SubSeq(StepsOf(r), 1, Len(calls[r]))
      /\ result[r].outcome = "running" <=> pc[r] # "idle"
      /\ pc[r] = "getPassword" => Names(r) = << "CreateCluster" >>
      /\ pc[r] = "createSQLUser" =>
           /\ Names(r) = SubSeq(StepsOf(r), 1, Len(StepsOf(r)) - 2)
           /\ cur[r].pwd # ""
      /\ pc[r] = "caCert" =>
           Names(r) = SubSeq(StepsOf(r), 1, Len(StepsOf(r)) - 1)
      /\ Did(r, "Create") /\ result[r].err # NilErr =>
           result[r].err = result[r].answer.err
      /\ Did(r, "Create") /\ result[r].err = NilErr => Names(r) = StepsOf(r)
      /\ Did(r, "Create") /\ Names(r) = StepsOf(r) =>
           result[r].answer.err = result[r].err

C23_Witness ==
  \E r \in Resources :
    /\ Did(r, "Create")
    /\ result[r].err = Err("CreateSQLUser", 500)
    /\ Names(r) = << "CreateCluster", "GetSecret", "CreateSQLUser" >>

\* C27: in a successful Create the password in the DSN is the one its
\* create-SQL-user request carried and the username in the DSN is the one
\* that request named.
C27_DsnMatchesSQLUser ==
  \A r \in Resources :
    Did(r, "Create") /\ result[r].err = NilErr =>
      LET users == SelectSeq(calls[r], LAMBDA c : c.call = "CreateSQLUser")
      IN /\ Len(users) = 1
         /\ users[1].key = result[r].seen.id
         /\ result[r].cd["dsn"][2] = users[1].body.name
         /\ result[r].cd["dsn"][4] = users[1].body.password
         /\ users[1].body.password # ""

C27_Witness ==
  \E r \in Resources :
    /\ Did(r, "Create")
    /\ result[r].err = NilErr
    /\ ~desired[r].passwordSecretRef
    /\ result[r].cd["dsn"][4] = "gen-b"
    /\ calls[r][2].body = [name |-> << "user", r >>, password |-> "gen-b"]

\* ---------------------------------------------------- after a failed Create
\* The cluster the annotation of r names is one the backend holds and has
\* not deleted.
NamedClusterLive(r) ==
  /\ externalName[r].kind = "uuid"
  /\ externalName[r].n \in 1..MaxClusters
  /\ backend[externalName[r].n].state \notin {"NONE", "DELETED"}

\* The step starts a Create of r.
CreateStarts(r) == result[r] = NoResult /\ result'[r].op = "Create"

\* The step makes a create-SQL-user call or a CA fetch for r, or produces
\* connection details for it.
Finishes(r) ==
  \/ /\ calls'[r] # calls[r]
     /\ calls'[r] # <<>>
     /\ calls'[r][Len(calls'[r])].call \in {"CreateSQLUser", "ClusterCACert"}
  \/ cdCount'[r] # cdCount[r]
  \/ result'[r].cd # NoConnectionDetails

\* C22: a Create that fails after create-cluster leaves the annotation on
\* the created cluster; while the backend holds the annotated cluster and
\* has not deleted it, an Observe that returns reports exists=true, the
\* reconciler starts no Create, and create-SQL-user, the CA fetch and
\* connection details happen only inside a Create, so never again for
\* that cluster.
C22_NoSecondCreate ==
  [][\A r \in Active :
       /\ pc[r] \in LaterSteps /\ pc'[r] = "idle" =>
            /\ externalName'[r] = cur[r].cluster.id
            /\ externalName'[r] = externalName[r]
       /\ Did(r, "Observe") /\ result[r].err = NilErr /\ NamedClusterLive(r) =>
            /\ result[r].exists
            /\ todo'[r] # "Create"
       /\ CreateStarts(r) => ~NamedClusterLive(r) /\ todo[r] = "Create"
       /\ Finishes(r) => pc[r] \in LaterSteps /\ result[r].op = "Create"]_vars

C22_Witness ==
  \E r \in Active :
    /\ Did(r, "Observe")
    /\ result[r].exists
    /\ externalName[r] = Uuid(1)
    /\ nextId = 2
    /\ cdCount[r] = 0
    /\ backend[1].state = CLUSTERSTATETYPE_CREATION_FAILED

\* ------------------------------------------------------ clusters per resource
\* The clusters created for r that the backend has not deleted.
LiveClustersOf(r) ==
  { i \in 1..MaxClusters :
      backend[i].name = r /\ backend[i].state \notin {"NONE", "DELETED"} }

\* C28 as claimed: with Create called only after an Observe that reported
\* exists=false, a resource has at most one cluster that is not DELETED at
\* any time, also when get-cluster answers not-found for a cluster that
\* exists or create-cluster returns an identifier that is no UUID.
C28_AtMostOneCluster ==
  \A r \in Active : Cardinality(LiveClustersOf(r)) <= 1

\* --------------------------------------------------- cancellation context
\* The k-th network call of the running operation is pending.
Pending(k) == inflight.call # "none" /\ inflight.step = k

\* C24 as claimed: whenever a network call of Observe, Create, Update or
\* Delete is pending and the caller's context is cancelled, that call
\* ends, whether or not the server ever answers.
C24_CancelEndsCall ==
  \A k \in 1..4 : (Pending(k) /\ inflight.cancelled) ~> ~Pending(k)

\* ------------------------------------------------- two resources at once
\* An operation of resource r takes a step.
Acts(r) == calls'[r] # calls[r] \/ pc'[r] # pc[r] \/ result'[r] # result[r]

\* The backend knows the cluster id only as a cluster created for r.
ClusterOf(r, id) ==
  \A i \in 1..MaxClusters :
    backend[i] # NoCluster /\ backend[i].id = id => backend[i].name = r

\* Call c of resource r carries r's own identifier and r's own data.
OwnCall(r, c) ==
  CASE c.call = "CreateCluster" ->
         c.key = EmptyName /\ c.body = CreateClusterRequest(desired[r])
    [] c.call = "GetSecret" -> desired[r].passwordSecretRef
    [] c.call = "CreateSQLUser" ->
         /\ ClusterOf(r, c.key)
         /\ c.body.name = desired[r].username
    [] c.call = "ClusterCACert" -> ClusterOf(r, c.key) /\ c.body = NoBody
    [] c.call = "UpdateCluster" ->
         /\ c.key = externalName[r] /\ ClusterOf(r, c.key)
         /\ c.body = UpdateClusterSpec(desired[r])
    [] OTHER ->
         c.key = externalName[r] /\ ClusterOf(r, c.key) /\ c.body = NoBody

\* Every call made for resource r so far is r's own.
OwnCalls(r) == \A i \in 1..Len(calls[r]) : OwnCall(r, calls[r][i])

\* C25: with two resources reconciled at once, every call made for a
\* resource carries that resource's own identifier and data, and a step of
\* one resource's operation leaves the other resource's annotation and
\* observed status, conditions included, as they were.
C25_NoCrossTalk ==
  [][\A r \in Resources :
       Acts(r) =>
         /\ OwnCalls(r)'
         /\ \A o \in Resources \ {r} :
              /\ externalName'[o] = externalName[o]
              /\ status'[o] = status[o]]_vars

\* Both Creates are under way at once, each on its own cluster.
C25_Witness ==
  /\ pc["r1"] = "caCert"
  /\ pc["r2"] = "createSQLUser"
  /\ cur["r1"].cluster.id # cur["r2"].cluster.id
  /\ externalName["r1"] = cur["r1"].cluster.id
  /\ externalName["r2"] = cur["r2"].cluster.id

====
